---- MODULE Spec2Model ----
(***************************************************************************)
(* Image processor: the single-image pipeline (decode, resize, watermark,  *)
(* size-constrained encode), the archive extractor and the batch handler   *)
(* of img-processor.py.                                                    *)
(*                                                                         *)
(* Strings the code takes apart (entry names, format names) are sequences  *)
(* of one-character strings, so that lower(), upper(), endswith(),         *)
(* rsplit(), os.path.split() and os.path.join() are computed.              *)
(***************************************************************************)
EXTENDS Integers, Sequences, FiniteSets, TLC

VARIABLES
    pc,                \* position of the running handler
    cfg,               \* sidebar configuration (lines 96-104)
    lib,               \* behaviour of the imaging library for this run
    file_bytes,        \* the image handed to process_single_image
    result,            \* what process_single_image returned
    uploaded_archive,  \* the uploaded archive (line 131)
    files_to_process,  \* the materialised work list (line 144)
    idx,               \* number of loop iterations completed (line 150)
    z_out,             \* entries written to the output zip, in order
    skipped,           \* names printed by the per-entry handler (line 166)
    ui                 \* what the page shows

vars == <<pc, cfg, lib, file_bytes, result, uploaded_archive,
          files_to_process, idx, z_out, skipped, ui>>

----------------------------------------------------------------------------
(* Bounds *)

MaxEntries == 3
MaxDim == 3

----------------------------------------------------------------------------
(* Strings *)

UpperLetters == <<"A","B","C","D","E","F","G","H","I","J","K","L","M",
                  "N","O","P","Q","R","S","T","U","V","W","X","Y","Z">>
LowerLetters == <<"a","b","c","d","e","f","g","h","i","j","k","l","m",
                  "n","o","p","q","r","s","t","u","v","w","x","y","z">>

LowerChar(c) ==
    IF \E k \in 1..26 : UpperLetters[k] = c
    THEN LowerLetters[CHOOSE k \in 1..26 : UpperLetters[k] = c]
    ELSE c

UpperChar(c) ==
    IF \E k \in 1..26 : LowerLetters[k] = c
    THEN UpperLetters[CHOOSE k \in 1..26 : LowerLetters[k] = c]
    ELSE c

\* str.lower()
Lower(s) == [k \in 1..Len(s) |-> LowerChar(s[k])]

\* str.upper()
Upper(s) == [k \in 1..Len(s) |-> UpperChar(s[k])]

\* str.endswith(suffix)
EndsWith(s, suffix) ==
    /\ Len(suffix) <= Len(s)
    /\ SubSeq(s, Len(s) - Len(suffix) + 1, Len(s)) = suffix

\* str.startswith(prefix)
StartsWith(s, prefix) ==
    /\ Len(prefix) <= Len(s)
    /\ SubSeq(s, 1, Len(prefix)) = prefix

\* str.rfind(c) + 1: the position of the last c, 0 when there is none
LastIndexOf(s, c) ==
    IF \E k \in 1..Len(s) : s[k] = c
    THEN CHOOSE k \in 1..Len(s) : s[k] = c /\ \A m \in (k+1)..Len(s) : s[m] # c
    ELSE 0

\* s.rsplit(c, 1)[0]
RSplitFirst(s, c) ==
    IF LastIndexOf(s, c) = 0 THEN s ELSE SubSeq(s, 1, LastIndexOf(s, c) - 1)

\* s.rstrip(c)
RECURSIVE RStrip(_, _)
RStrip(s, c) ==
    IF Len(s) > 0 /\ s[Len(s)] = c THEN RStrip(SubSeq(s, 1, Len(s) - 1), c) ELSE s

\* posixpath.split(p): (head, tail)
PathSplit(p) ==
    LET i    == LastIndexOf(p, "/")
        head == SubSeq(p, 1, i)
        tail == SubSeq(p, i + 1, Len(p))
    IN  [head |-> IF head # <<>> /\ (\E k \in 1..Len(head) : head[k] # "/")
                  THEN RStrip(head, "/") ELSE head,
         tail |-> tail]

\* posixpath.join(a, b)
PathJoin(a, b) ==
    IF StartsWith(b, <<"/">>) THEN b
    ELSE IF a = <<>> \/ EndsWith(a, <<"/">>) THEN a \o b
    ELSE a \o <<"/">> \o b

----------------------------------------------------------------------------
(* Pixel buffers and the imaging library *)

NoOverlay == [on |-> FALSE, px |-> 0, w |-> 0, h |-> 0, x |-> 0, y |-> 0, alpha |-> 0]

NoBuffer == [format |-> <<>>, quality |-> 0, size |-> 0, w |-> 0, h |-> 0,
             mode |-> "", px |-> 0, overlay |-> NoOverlay]

NoLogo == [present |-> FALSE, ok |-> FALSE, w |-> 0, h |-> 0, px |-> 0]

\* Amount of detail in the picture a buffer holds, watermark included.
Detail(img) == img.px + (IF img.overlay.on THEN img.overlay.px ELSE 0)

\* Bytes per unit of detail the serializer produces at a quality.  A linear
\* codec shrinks with quality; a flat one ignores it (as Pillow's PNG writer
\* does); a dip codec is small at one quality only.
CodecRate(codec, quality) ==
    CASE codec.kind = "linear" -> 128 * quality
      [] codec.kind = "flat"   -> 10240
      [] codec.kind = "dip"    -> IF quality = codec.at THEN 10240 ELSE 10241

\* Number of bytes img.save(buffer, format, quality) writes.
SaveSize(img, fmt, quality) == Detail(img) * CodecRate(lib.codec, quality)

\* The bytes img.save writes: the picture, its geometry and colour model in
\* the given format at the given quality.
Save(img, fmt, quality) ==
    [format  |-> fmt,
     quality |-> quality,
     size    |-> SaveSize(img, fmt, quality),
     w       |-> img.w,
     h       |-> img.h,
     mode    |-> img.mode,
     px      |-> img.px,
     overlay |-> img.overlay]

----------------------------------------------------------------------------
(* resize_and_compress_to_buffer *)

QualityStart == 95
QualityFloor == 10
QualityStep == 5
BytesPerKB == 1024

JPG == <<"J","P","G">>
JPEG == <<"J","P","E","G">>

\* fmt = image_format.upper(); if fmt == 'JPG': fmt = 'JPEG'
NormalizeFormat_noalias(image_format) == Upper(image_format)
NormalizeFormat(image_format) ==
    IF Upper(image_format) = JPG THEN JPEG ELSE Upper(image_format)

\* if fmt == 'JPEG' and img.mode == 'RGBA': img = img.convert('RGB')
Flatten(img, fmt) ==
    IF fmt = JPEG /\ img.mode = "RGBA" THEN [img EXCEPT !.mode = "RGB"] ELSE img

\* the loop's exit test
LoopExit_strict(size, target_bytes, quality) ==
    size < target_bytes \/ quality <= QualityFloor
LoopExit_nofloor(size, target_bytes, quality) ==
    size <= target_bytes \/ quality <= 0
LoopExit(size, target_bytes, quality) ==
    size <= target_bytes \/ quality <= QualityFloor

\* the while loop; attempts records the qualities img.save was called with
RECURSIVE CompressLoop(_, _, _, _, _)
CompressLoop(img, fmt, target_bytes, quality, attempts) ==
    LET output_buffer == Save(img, fmt, quality)
    IN  IF LoopExit(output_buffer.size, target_bytes, quality)
        THEN [buf |-> output_buffer, attempts |-> Append(attempts, quality)]
        ELSE CompressLoop(img, fmt, target_bytes, quality - QualityStep,
                          Append(attempts, quality))

resize_and_compress_to_buffer(img, target_size_kb, image_format) ==
    LET target_bytes == target_size_kb * BytesPerKB
        fmt          == NormalizeFormat(image_format)
    IN  CompressLoop(Flatten(img, fmt), fmt, target_bytes, QualityStart, <<>>)

----------------------------------------------------------------------------
(* apply_logo *)

LogoAreaTenths == 6

\* int(x ** 0.5) for x >= 0
ISqrt(n) == CHOOSE r \in 0..(n + 1) : r * r <= n /\ (r + 1) * (r + 1) > n

Clamp(v, lo, hi) == IF v < lo THEN lo ELSE IF v > hi THEN hi ELSE v

\* The body of the try block.  ok is FALSE when a statement in it raises.
TryLogo(base_img, logo_bytes, opacity) ==
    LET base_area   == base_img.w * base_img.h
        \* int((base_area * 0.6 * (lw / lh)) ** 0.5)
        logo_width  == ISqrt((LogoAreaTenths * base_area * logo_bytes.w)
                             \div (10 * logo_bytes.h))
        \* int(logo_width / (lw / lh))
        logo_height == (logo_width * logo_bytes.h) \div logo_bytes.w
        opacity_pct == Clamp(opacity, 0, 100)
        x           == (base_img.w - logo_width) \div 2
        y           == (base_img.h - logo_height) \div 2
    IN  IF ~logo_bytes.ok
        THEN [ok |-> FALSE, img |-> base_img]       \* Image.open raises
        ELSE IF (logo_width = 0 \/ logo_height = 0) /\ lib.zero_resize_raises
        THEN [ok |-> FALSE, img |-> base_img]       \* resize raises
        ELSE IF logo_width = 0 \/ logo_height = 0 \/ opacity_pct = 0
        THEN [ok |-> TRUE, img |-> base_img]        \* nothing is blended in
        ELSE [ok |-> TRUE,
              img |-> [base_img EXCEPT !.overlay =
                         [on |-> TRUE, px |-> logo_bytes.px,
                          w |-> logo_width, h |-> logo_height,
                          x |-> x, y |-> y, alpha |-> opacity_pct]]]

apply_logo_dirty(base_img, logo_bytes, opacity) ==
    IF ~logo_bytes.present THEN base_img
    ELSE LET r == TryLogo(base_img, logo_bytes, opacity)
         IN  IF r.ok THEN r.img
             ELSE [base_img EXCEPT !.overlay = [NoOverlay EXCEPT !.on = TRUE]]
apply_logo(base_img, logo_bytes, opacity) ==
    IF ~logo_bytes.present THEN base_img
    ELSE LET r == TryLogo(base_img, logo_bytes, opacity)
         IN  IF r.ok THEN r.img ELSE base_img

----------------------------------------------------------------------------
(* process_single_image *)

\* Image.open(...).convert("RGBA").resize((width, height), LANCZOS)
Normalize(file, width, height) ==
    [w |-> width, h |-> height, mode |-> "RGBA", px |-> file.px, overlay |-> NoOverlay]

process_single_image(file, width, height, logo_bytes, opacity, target_size_kb, image_format) ==
    IF ~file.ok
    THEN [raised |-> TRUE, buf |-> NoBuffer, final_fmt |-> <<>>, attempts |-> <<>>]
    ELSE LET img0      == Normalize(file, width, height)
             img       == IF logo_bytes.present
                          THEN apply_logo(img0, logo_bytes, opacity) ELSE img0
             final_fmt == Lower(image_format)
             out       == resize_and_compress_to_buffer(img, target_size_kb, final_fmt)
         IN  [raised |-> FALSE, buf |-> out.buf, final_fmt |-> final_fmt,
              attempts |-> out.attempts]

----------------------------------------------------------------------------
(* extract_files_from_archive *)

DotZip == <<".","z","i","p">>
Dot7z == <<".","7","z">>

ImageExtensions ==
    { <<".","p","n","g">>, <<".","j","p","g">>,
      <<".","j","p","e","g">>, <<".","w","e","b","p">> }

\* name.lower().endswith(('.png', '.jpg', '.jpeg', '.webp'))
IsImageName_caseSensitive(name) == \E ext \in ImageExtensions : EndsWith(name, ext)
IsImageName(name) == \E ext \in ImageExtensions : EndsWith(Lower(name), ext)

\* zipfile.ZipFile(f, 'r') / py7zr.SevenZipFile(f, 'r') succeed only on a
\* stream that is a container of that kind
CanOpenAs_unchecked(archive, kind) == TRUE
CanOpenAs(archive, kind) == archive.kind = kind

\* z.open(name).read(): a name stands for the last member stored under it
ZipRead(entries, name) ==
    entries[CHOOSE k \in 1..Len(entries) :
              /\ entries[k].name = name
              /\ \A m \in (k+1)..Len(entries) : entries[m].name # name].data

\* for name in z.namelist(): if <image name>: yield name, BytesIO(z.open(name).read())
RECURSIVE ZipYield(_, _)
ZipYield(entries, k) ==
    IF k > Len(entries) THEN <<>>
    ELSE (IF IsImageName(entries[k].name)
          THEN <<[name |-> entries[k].name, data |-> ZipRead(entries, entries[k].name)]>>
          ELSE <<>>) \o ZipYield(entries, k + 1)

\* z.readall(): a dict, one key per name in first-insertion order, holding
\* the last value stored under the name
RECURSIVE ReadAll(_, _)
ReadAll(entries, k) ==
    IF k > Len(entries) THEN <<>>
    ELSE (IF \E m \in 1..(k-1) : entries[m].name = entries[k].name
          THEN <<>>
          ELSE <<[name |-> entries[k].name, data |-> ZipRead(entries, entries[k].name)]>>)
         \o ReadAll(entries, k + 1)

\* for name, data in all_files.items(): if <image name>: yield name, data
RECURSIVE SevenZipYield(_, _)
SevenZipYield(all_files, k) ==
    IF k > Len(all_files) THEN <<>>
    ELSE (IF IsImageName(all_files[k].name) THEN <<all_files[k]>> ELSE <<>>)
         \o SevenZipYield(all_files, k + 1)

\* list(extract_files_from_archive(uploaded_archive)): the pairs yielded, or
\* the exception the generator raises while it is drained
extract_files_from_archive(archive) ==
    LET filename == Lower(archive.name)
    IN  IF EndsWith(filename, DotZip)
        THEN IF CanOpenAs(archive, "zip")
             THEN [raised |-> FALSE, files |-> ZipYield(archive.entries, 1)]
             ELSE [raised |-> TRUE, files |-> <<>>]
        ELSE IF EndsWith(filename, Dot7z)
        THEN IF CanOpenAs(archive, "7z")
             THEN [raised |-> FALSE,
                   files |-> SevenZipYield(ReadAll(archive.entries, 1), 1)]
             ELSE [raised |-> TRUE, files |-> <<>>]
        ELSE [raised |-> FALSE, files |-> <<>>]

----------------------------------------------------------------------------
(* Batch mode: output naming *)

\* os.path.split(filename); rsplit('.', 1)[0]; f"{name_no_ext}.{final_fmt}";
\* os.path.join(original_path, new_filename)
OutputPath_flat(filename, final_fmt) ==
    RSplitFirst(PathSplit(filename).tail, ".") \o <<".">> \o final_fmt
OutputPath(filename, final_fmt) ==
    LET original_path == PathSplit(filename).head
        original_name == PathSplit(filename).tail
        name_no_ext   == RSplitFirst(original_name, ".")
        new_filename  == name_no_ext \o <<".">> \o final_fmt
    IN  PathJoin(original_path, new_filename)

----------------------------------------------------------------------------
(* The page *)

NoDownload == [offered |-> FALSE, data |-> <<>>]

BlankPage == [warning |-> FALSE, success |-> FALSE, error |-> FALSE,
              status |-> "", progress |-> <<0, 1>>, download |-> NoDownload]

NoFile == [ok |-> FALSE, px |-> 0]
NoResult == [raised |-> FALSE, buf |-> NoBuffer, final_fmt |-> <<>>, attempts |-> <<>>]
NoArchive == [name |-> <<>>, kind |-> "bad", entries |-> <<>>]

\* st.selectbox("Output Format", ["webp", "png", "jpg"])
OutputFormats == { <<"w","e","b","p">>, <<"p","n","g">>, <<"j","p","g">> }

----------------------------------------------------------------------------
(* Inputs of the single-image pipeline *)

Ladder == { q \in QualityFloor..QualityStart : q % QualityStep = 0 }

Codecs == { [kind |-> "linear", at |-> 0], [kind |-> "flat", at |-> 0] }
          \cup { [kind |-> "dip", at |-> q] : q \in Ladder }

Libraries == [codec : Codecs, zero_resize_raises : BOOLEAN]

\* format names in the letter cases the functions accept
PipelineFormats ==
    OutputFormats \cup { <<"J","P","G">>, <<"j","p","e","g">>, <<"P","n","g">> }

ImageFiles == { [ok |-> FALSE, px |-> 0], [ok |-> TRUE, px |-> 1], [ok |-> TRUE, px |-> 8] }

Logos == { NoLogo,
           [present |-> TRUE, ok |-> FALSE, w |-> 0, h |-> 0, px |-> 0],
           [present |-> TRUE, ok |-> TRUE, w |-> 1, h |-> 1, px |-> 1],
           [present |-> TRUE, ok |-> TRUE, w |-> 4, h |-> 1, px |-> 1],
           [present |-> TRUE, ok |-> TRUE, w |-> 1, h |-> 4, px |-> 1] }

PipelineConfigs ==
    [width : 1..MaxDim, height : {1, MaxDim}, image_format : PipelineFormats,
     target_size_kb : {10, 11}, logo_bytes : Logos, opacity : {0, 50}]

InitPipeline ==
    /\ pc = "ready"
    /\ cfg \in PipelineConfigs
    /\ lib \in Libraries
    /\ file_bytes \in ImageFiles
    /\ result = NoResult
    /\ uploaded_archive = NoArchive
    /\ files_to_process = <<>>
    /\ idx = 0
    /\ z_out = <<>>
    /\ skipped = <<>>
    /\ ui = BlankPage

\* one call of process_single_image
CallPipeline ==
    /\ pc = "ready"
    /\ result' = process_single_image(file_bytes, cfg.width, cfg.height, cfg.logo_bytes,
                                      cfg.opacity, cfg.target_size_kb, cfg.image_format)
    /\ pc' = IF result'.raised THEN "raised" ELSE "returned"
    /\ UNCHANGED <<cfg, lib, file_bytes, uploaded_archive, files_to_process,
                   idx, z_out, skipped, ui>>

NextPipeline == CallPipeline

SpecPipeline == InitPipeline /\ [][NextPipeline]_vars

----------------------------------------------------------------------------
(* Inputs of batch mode *)

ImageNames ==
    { <<"a",".","p","n","g">>,
      <<"a",".","j","p","g">>,
      <<"d","/","a",".","P","N","G">>,
      <<"d","/","e","/","b",".","v","2",".","J","p","e","g">>,
      <<"d","/","c",".","w","e","b","p">> }

OtherNames ==
    { <<"a",".","t","x","t">>,
      <<"d","/","p","n","g">> }

\* entries whose bytes are no image although the name says so
CorruptNames ==
    { <<"a",".","j","p","g">>,
      <<"d","/","a",".","P","N","G">>,
      <<"d","/","c",".","w","e","b","p">> }

\* the picture an entry holds is told apart by its name's length
Entries ==
    { [name |-> n, data |-> [ok |-> TRUE, px |-> Len(n)]] : n \in ImageNames }
    \cup { [name |-> n, data |-> NoFile] : n \in CorruptNames \cup OtherNames }

\* member lists of at most MaxEntries members, no name stored twice
EntryLists ==
    { e \in UNION { [1..n -> Entries] : n \in 0..MaxEntries } :
        \A j, k \in 1..Len(e) : j # k => e[j].name # e[k].name }

ArchiveNames == { <<"b",".","z","i","p">>, <<"B",".","7","Z">> }

Archives ==
    { [name |-> <<"b",".","z","i","p">>, kind |-> "zip", entries |-> e] : e \in EntryLists }
    \cup { [name |-> <<"B",".","7","Z">>, kind |-> "7z", entries |-> e] : e \in EntryLists }
    \cup { [name |-> n, kind |-> "bad", entries |-> <<>>] : n \in ArchiveNames }
    \cup { [name |-> <<"b",".","z","i","p">>, kind |-> "7z", entries |-> e] :
             e \in { x \in EntryLists : Len(x) <= 1 } }
    \cup { [name |-> <<"B",".","7","Z">>, kind |-> "zip", entries |-> e] :
             e \in { x \in EntryLists : Len(x) <= 1 } }

BatchConfigs ==
    [width : {2}, height : {MaxDim}, image_format : OutputFormats,
     target_size_kb : {100},
     logo_bytes : { [present |-> TRUE, ok |-> TRUE, w |-> 1, h |-> 1, px |-> 1] },
     opacity : {50}]

InitBatch ==
    /\ pc = "idle"
    /\ cfg \in BatchConfigs
    /\ lib = [codec |-> [kind |-> "linear", at |-> 0], zero_resize_raises |-> TRUE]
    /\ file_bytes = NoFile
    /\ result = NoResult
    /\ uploaded_archive \in Archives
    /\ files_to_process = <<>>
    /\ idx = 0
    /\ z_out = <<>>
    /\ skipped = <<>>
    /\ ui = BlankPage

----------------------------------------------------------------------------
(* Batch mode: the "Process Batch" handler *)

\* lines 143-148 when the generator drains: the work list is materialised;
\* an empty one gets the warning and the loop is not entered
OpenArchive ==
    /\ pc = "idle"
    /\ \E ex \in {extract_files_from_archive(uploaded_archive)} :
          /\ ~ex.raised
          /\ files_to_process' = ex.files
          /\ IF Len(ex.files) = 0
             THEN /\ ui' = [ui EXCEPT !.warning = TRUE]
                  /\ pc' = "finish"
             ELSE /\ ui' = ui
                  /\ pc' = "loop"
    /\ UNCHANGED <<cfg, lib, file_bytes, result, uploaded_archive, idx, z_out, skipped>>

\* lines 143-144 when the generator raises: control leaves the with block
\* for the handler of lines 181-182
OpenArchiveRaises ==
    /\ pc = "idle"
    /\ extract_files_from_archive(uploaded_archive).raised
    /\ ui' = [ui EXCEPT !.error = TRUE]
    /\ pc' = "done"
    /\ UNCHANGED <<cfg, lib, file_bytes, result, uploaded_archive,
                   files_to_process, idx, z_out, skipped>>

\* one iteration of the loop, lines 150-168
ProcessEntry_abort ==
    /\ pc = "loop"
    /\ idx < Len(files_to_process)
    /\ \E entry \in {files_to_process[idx + 1]} :
       \E r \in {process_single_image(entry.data, cfg.width, cfg.height,
                      cfg.logo_bytes, cfg.opacity, cfg.target_size_kb, cfg.image_format)} :
           /\ file_bytes' = entry.data
           /\ result' = r
           /\ IF r.raised
              THEN /\ ui' = [ui EXCEPT !.error = TRUE]
                   /\ pc' = "done"
                   /\ UNCHANGED <<z_out, skipped, idx>>
              ELSE /\ z_out' = Append(z_out, [name |-> OutputPath(entry.name, r.final_fmt),
                                              data |-> r.buf])
                   /\ idx' = idx + 1
                   /\ ui' = [ui EXCEPT !.progress = <<idx + 1, Len(files_to_process)>>]
                   /\ pc' = IF idx + 1 = Len(files_to_process) THEN "finish" ELSE "loop"
                   /\ UNCHANGED skipped
    /\ UNCHANGED <<cfg, lib, uploaded_archive, files_to_process>>
ProcessEntry ==
    /\ pc = "loop"
    /\ idx < Len(files_to_process)
    /\ \E entry \in {files_to_process[idx + 1]} :
       \E r \in {process_single_image(entry.data, cfg.width, cfg.height,
                      cfg.logo_bytes, cfg.opacity, cfg.target_size_kb, cfg.image_format)} :
           /\ file_bytes' = entry.data
           /\ result' = r
           /\ IF r.raised
              THEN /\ skipped' = Append(skipped, entry.name)
                   /\ UNCHANGED z_out
              ELSE /\ z_out' = Append(z_out, [name |-> OutputPath(entry.name, r.final_fmt),
                                              data |-> r.buf])
                   /\ UNCHANGED skipped
    /\ idx' = idx + 1
    /\ ui' = [ui EXCEPT !.status = "Processing",
                        !.progress = <<idx + 1, Len(files_to_process)>>]
    /\ pc' = IF idx + 1 = Len(files_to_process) THEN "finish" ELSE "loop"
    /\ UNCHANGED <<cfg, lib, uploaded_archive, files_to_process>>

\* lines 170-179: the with block has sealed the output zip
FinishBatch ==
    /\ pc = "finish"
    /\ ui' = [ui EXCEPT !.status = "Processing complete!",
                        !.progress = <<100, 100>>,
                        !.success = TRUE,
                        !.download = [offered |-> TRUE, data |-> z_out]]
    /\ pc' = "done"
    /\ UNCHANGED <<cfg, lib, file_bytes, result, uploaded_archive,
                   files_to_process, idx, z_out, skipped>>

NextBatch == OpenArchive \/ OpenArchiveRaises \/ ProcessEntry \/ FinishBatch

SpecBatch == InitBatch /\ [][NextBatch]_vars

----------------------------------------------------------------------------
(* Properties of the size-constrained encoder and the pipeline,            *)
(* checked under SpecPipeline                                              *)

MaxAttempts == (QualityStart - QualityFloor) \div QualityStep + 1

TargetBytes == cfg.target_size_kb * BytesPerKB

\* the size the serializer gives the encoded picture at quality q
SizeAt(q) == SaveSize(result.buf, result.buf.format, q)

\* C3: a call on a decodable image always returns a serialization; the
\* qualities tried are 95, 90, ... in descending steps of 5, at most 18 of
\* them, none below 10, and the bytes returned are those of the last try.
LadderSearchBounded ==
    /\ (pc # "ready" /\ file_bytes.ok) => pc = "returned"
    /\ pc = "returned" =>
         /\ Len(result.attempts) \in 1..MaxAttempts
         /\ MaxAttempts = 18
         /\ \A k \in 1..Len(result.attempts) :
               /\ result.attempts[k] = QualityStart - QualityStep * (k - 1)
               /\ result.attempts[k] \in Ladder
               /\ result.attempts[k] >= 10
         /\ result.buf.quality = result.attempts[Len(result.attempts)]

LadderSearchBounded_witness ==
    /\ pc = "returned"
    /\ Len(result.attempts) = 18
    /\ result.buf.quality = 10
    /\ result.buf.size > TargetBytes

\* C4: the bytes returned are the serialization at the highest ladder quality
\* whose size is within target_size_kb * 1024, or at quality 10 when no
\* ladder quality fits; they exceed the ceiling only at quality 10, and
\* every higher quality gave a size over the ceiling.
HighestFittingQuality ==
    pc = "returned" =>
        /\ result.buf.quality \in Ladder
        /\ result.buf.size = SizeAt(result.buf.quality)
        /\ IF \E q \in Ladder : SizeAt(q) <= TargetBytes
           THEN /\ result.buf.size <= TargetBytes
                /\ \A q \in Ladder : SizeAt(q) <= TargetBytes => q <= result.buf.quality
           ELSE result.buf.quality = 10
        /\ result.buf.size > TargetBytes => result.buf.quality = 10
        /\ \A q \in Ladder : q > result.buf.quality => SizeAt(q) > TargetBytes

HighestFittingQuality_witness ==
    /\ pc = "returned"
    /\ result.buf.quality \in 15..90
    /\ result.buf.size = TargetBytes
    /\ lib.codec.kind = "linear"
    /\ \E q \in Ladder : q < result.buf.quality /\ SizeAt(q) < TargetBytes

\* C8: when the watermark cannot be applied (it does not decode, or its
\* scaled size is degenerate and the resize raises), the call still returns,
\* the encoded picture carries no watermark, and the result equals the
\* result of the same call without a watermark.
WatermarkBestEffort ==
    (/\ pc # "ready"
     /\ file_bytes.ok
     /\ cfg.logo_bytes.present
     /\ ~TryLogo(Normalize(file_bytes, cfg.width, cfg.height),
                 cfg.logo_bytes, cfg.opacity).ok)
    => /\ pc = "returned"
       /\ result.buf.overlay = NoOverlay
       /\ result.buf.px = file_bytes.px
       /\ result = process_single_image(file_bytes, cfg.width, cfg.height, NoLogo,
                       cfg.opacity, cfg.target_size_kb, cfg.image_format)

WatermarkBestEffort_witness ==
    /\ pc = "returned"
    /\ file_bytes.ok
    /\ cfg.logo_bytes.present
    /\ ~cfg.logo_bytes.ok
    /\ cfg.opacity > 0
    /\ result.buf.overlay = NoOverlay

\* C9: the buffer that is serialized has the configured width and height,
\* with or without a watermark; for jpg or jpeg output in any letter case it
\* is opaque (RGB), for png and webp it keeps its alpha channel (RGBA).
EncoderInputGeometryAndMode ==
    pc = "returned" =>
        /\ result.buf.w = cfg.width
        /\ result.buf.h = cfg.height
        /\ Lower(cfg.image_format) \in { <<"j","p","g">>, <<"j","p","e","g">> }
             => result.buf.mode = "RGB"
        /\ Lower(cfg.image_format) \in { <<"p","n","g">>, <<"w","e","b","p">> }
             => result.buf.mode = "RGBA"

EncoderInputGeometryAndMode_witness ==
    /\ pc = "returned"
    /\ cfg.image_format = <<"J","P","G">>
    /\ result.buf.overlay.on
    /\ result.buf.mode = "RGB"
    /\ result.buf.w = MaxDim
    /\ result.buf.h = 1

----------------------------------------------------------------------------
(* Properties of the extractor and of batch mode, checked under SpecBatch  *)

\* the container kind an upload's name declares
DeclaredKind(name) ==
    LET ext == Lower(SubSeq(name, LastIndexOf(name, ".") + 1, Len(name)))
    IN  IF ext = <<"z","i","p">> THEN "zip"
        ELSE IF ext = <<"7","z">> THEN "7z" ELSE "none"

Openable(archive) == DeclaredKind(archive.name) = archive.kind

\* the name has an extension and it is one of the four image extensions
HasImageExtension(name) ==
    /\ LastIndexOf(name, ".") > 0
    /\ Lower(SubSeq(name, LastIndexOf(name, ".") + 1, Len(name)))
         \in { <<"p","n","g">>, <<"j","p","g">>, <<"j","p","e","g">>, <<"w","e","b","p">> }

Qualifying(e) == HasImageExtension(e.name)
Decodable(e) == e.data.ok

\* the entries among the first k of the work list whose pipeline succeeds
Succeeding(k) == SelectSeq(SubSeq(files_to_process, 1, k), Decodable)

FailedCount == Len(files_to_process) - Len(Succeeding(Len(files_to_process)))

\* C1: every failing entry is skipped and every later entry is still
\* processed: the output holds one entry per succeeding entry processed so
\* far, a batch on a readable archive always runs to the end, and the sealed
\* archive holds total - failed entries (<= total, < total when any entry
\* fails, total - 1 when exactly one does).
BatchFailureIsolation ==
    /\ Len(z_out) = Len(Succeeding(idx))
    /\ Len(skipped) = idx - Len(Succeeding(idx))
    /\ (pc = "done" /\ Openable(uploaded_archive)) =>
         /\ ~ui.error
         /\ idx = Len(files_to_process)
         /\ ui.download.offered
         /\ Len(ui.download.data) = Len(files_to_process) - FailedCount
         /\ Len(ui.download.data) <= Len(files_to_process)
         /\ FailedCount > 0 => Len(ui.download.data) < Len(files_to_process)
         /\ FailedCount = 1 => Len(ui.download.data) = Len(files_to_process) - 1

BatchFailureIsolation_witness ==
    /\ pc = "done"
    /\ Len(files_to_process) = 3
    /\ ~files_to_process[1].data.ok
    /\ files_to_process[2].data.ok
    /\ files_to_process[3].data.ok
    /\ Len(ui.download.data) = 2
    /\ skipped = <<files_to_process[1].name>>

\* the path expected for an entry: everything up to and including its last
\* slash, its base name up to the last dot, a dot, the output format
ExpectedPath(name) ==
    SubSeq(name, 1, LastIndexOf(name, "/"))
    \o SubSeq(name, LastIndexOf(name, "/") + 1, LastIndexOf(name, ".") - 1)
    \o <<".">> \o cfg.image_format

ExpectedOutput(k) ==
    [j \in 1..Len(Succeeding(k)) |->
        [name |-> ExpectedPath(Succeeding(k)[j].name),
         data |-> process_single_image(Succeeding(k)[j].data, cfg.width, cfg.height,
                      cfg.logo_bytes, cfg.opacity, cfg.target_size_kb,
                      cfg.image_format).buf]]

\* C2: entries are processed in work-list order, and the output archive is
\* the succeeding entries in that order, each under its own directory path
\* and base name with the extension replaced by the output format.
BatchOrderAndPaths ==
    /\ z_out = ExpectedOutput(idx)
    /\ ui.download.offered => ui.download.data = ExpectedOutput(Len(files_to_process))

BatchOrderAndPaths_witness ==
    /\ pc = "done"
    /\ ui.download.offered
    /\ Len(files_to_process) = 3
    /\ ~files_to_process[2].data.ok
    /\ Len(ui.download.data) = 2
    /\ ui.download.data[1].name = <<"d","/","e","/","b",".","v","2",".","j","p","g">>
    /\ ui.download.data[2].name = <<"a",".","j","p","g">>

\* C5: an empty work list ends the batch with the warning and nothing else:
\* no success message and no archive offered for download.
EmptyBatchProducesNoArchive ==
    (pc = "done" /\ Openable(uploaded_archive) /\ files_to_process = <<>>)
    => /\ ui.warning
       /\ ~ui.success
       /\ ~ui.download.offered

\* C6: an upload that is no container of the kind its name declares aborts
\* the batch: the error is shown, no entry is processed, nothing is written,
\* no success message and no download appear.
ArchiveErrorAborts ==
    ~Openable(uploaded_archive) =>
        /\ pc \in {"idle", "done"}
        /\ idx = 0
        /\ files_to_process = <<>>
        /\ z_out = <<>>
        /\ ~ui.success
        /\ ~ui.warning
        /\ ~ui.download.offered
        /\ pc = "done" => ui.error

ArchiveErrorAborts_witness ==
    /\ pc = "done"
    /\ ui.error
    /\ uploaded_archive.kind = "7z"
    /\ DeclaredKind(uploaded_archive.name) = "zip"
    /\ Len(uploaded_archive.entries) = 1
    /\ uploaded_archive.entries[1].data.ok

OutputPathsDistinct ==
    \A j, k \in 1..Len(z_out) : j # k => z_out[j].name # z_out[k].name

====
